---- MODULE Spec2Model ----
(***************************************************************************)
(* Memory_Pool.h: a multi-level memory pool.  Eight Fixed_Size_Pool        *)
(* objects (one per size class, each with its own mutex and free list), a  *)
(* per-thread Thread_Local_Cache, and the dispatching Memory_Pool with its *)
(* atomic statistics.  Threads call allocate / deallocate / reallocate on  *)
(* one shared Memory_Pool; its maintenance thread and its destructor run   *)
(* beside them, and a Memory_Pool_RAII handle wraps one allocation.        *)
(*                                                                         *)
(* Representation.                                                         *)
(*  - An address is the identity of one region of the platform heap        *)
(*    (1..MaxAddr); NULL is 0.  heap[a] says whether the region is         *)
(*    unmapped, was carved by a pool (user address = base + header_size)   *)
(*    or is a raw malloc region (user address = base).                     *)
(*  - hdr[a] is the Memory_Block_Header read at (user address -            *)
(*    header_size).  A pool writes it when it carves the block.  For a raw *)
(*    region nothing ever writes it: those bytes lie before the region, so *)
(*    they are an indeterminate value fixed when malloc picks the region.  *)
(*  - A size_t / atomic<size_t> value v is held as the integer n of        *)
(*    smallest magnitude with v = n mod 2^64: a negative n is an unsigned  *)
(*    counter that has wrapped below zero.  All magnitudes stay tiny, so   *)
(*    arithmetic mod 2^64 is arithmetic on these representatives.          *)
(*  - Atomic statistics are only ever changed by commuting fetch-adds that *)
(*    no modelled code reads back, so consecutive updates of one call are  *)
(*    folded into the step that precedes them.  Thread-private work (the   *)
(*    thread cache, locals) is folded likewise.  Each pool mutex, the      *)
(*    unlocked header validation of Fixed_Size_Pool::deallocate and the    *)
(*    shutdown flag keep their own steps.                                  *)
(***************************************************************************)
EXTENDS Integers, Sequences, FiniteSets, TLC

\* ------------------------------------------------------------------ bounds
NumThreads == 2
MaxAddr == 20
MaxCalls == 2

\* --------------------------------------------------------- program constants
NumClasses == 8
TlsCacheSize == 16
HeaderBytes == 32
MaxSmall == 1024

NULL == 0
NoPool == -1
\* a non-null word that is the address of no pool
WildPtr == NoPool - 1

Threads == 1..NumThreads
Addr == 1..MaxAddr
PoolIdx == 0..(NumClasses - 1)

\* PoolConfig::small_block_sizes
small_block_sizes == [i \in PoolIdx |-> 2^(i + 3)]

\* Constructor arguments explored: the thread-local fast path on or off, and
\* the alignment (a power of two).
Alignments == {8, 16}

\* Alignments for the claims about addresses: powers of two on both sides of
\* what the platform allocator guarantees.
WideAlignments == {8, 16, 32, 64}

\* Sizes the callers pass to allocate and to reallocate.
AllocSizes == {0, 5, 64, 2000}
SmallSizes == {5, 64}
ReallocSizes == {0, 3, 5, 64, 2000}

\* A pool size and a size above the largest class.
SharedSizes == {64, 2000}

\* Every class size with its two neighbours, the smallest request and a
\* large one.
ClassSizes ==
    {1, 2000} \cup UNION {{small_block_sizes[i] - 1, small_block_sizes[i],
                           small_block_sizes[i] + 1} : i \in PoolIdx}

VARIABLES
    enable_tls,       \* config_.enable_tls
    alignment,        \* config_.alignment
    shutdown,         \* shutdown_
    stats,            \* stats_
    pools,            \* pools_[i]: one Fixed_Size_Pool per class
    tls_cache,        \* per thread: the Thread_Local_Cache
    tls_initialized,  \* per thread: the thread_local flag of get_tls_cache
    heap,             \* platform heap: state of each region
    hdr,              \* the header bytes in front of each user address
    crashed,          \* the process was aborted by the platform deallocator
    cleaner,          \* cleaner_thread_: its position in cleanup_thread_func
    dtor,             \* ~Memory_Pool: its position
    raii,             \* per thread: the Memory_Pool_RAII handle it owns
    other,            \* a second Memory_Pool object of the same process
    pc,               \* per thread: position in the call in progress
    frame,            \* per thread: locals of the call in progress
    held,             \* callers: number of live allocations holding each address
    req,              \* callers: size asked for when the address was obtained
    stale,            \* callers: addresses deallocated and not re-issued since
    hist,             \* callers: the (at most two) most recent finished calls
    ncalls            \* number of calls made so far (bounded by MaxCalls)

prog == <<enable_tls, alignment, shutdown, stats, pools, tls_cache,
          tls_initialized, heap, hdr, crashed>>
vars == <<enable_tls, alignment, shutdown, stats, pools, tls_cache,
          tls_initialized, heap, hdr, crashed, cleaner, dtor, raii, other, pc,
          frame, held, req, stale, hist, ncalls>>

\* README, "自动清理机制": each pool keeps at most this many free blocks
MaxIdleBlocks == 100

\* ------------------------------------------------------------ pure helpers
\* std::malloc returns addresses that are multiples of alignof(max_align_t)
\* and promises nothing more.
MallocAlign == 16

\* The regions lie 2064 bytes apart (room for the largest one), so that
\* their bases run through every multiple of MallocAlign modulo 64.
RegionStride == MallocAlign * 129

\* the address std::malloc returned for region a
BaseAddress(a) == a * RegionStride

Min(a, b) == IF a < b THEN a ELSE b

\* (x + a - 1) & ~(a - 1), for a power of two a
AlignUp(x, a) == ((x + a - 1) \div a) * a

\* Fixed_Size_Pool constructor: the block size rounded up to the alignment
PoolBlockSize(i) == AlignUp(small_block_sizes[i], alignment)

\* header_size of Fixed_Size_Pool::allocate/deallocate and Memory_Pool
header_size == AlignUp(HeaderBytes, alignment)

RECURSIVE FindFrom(_, _)
FindFrom(size, i) ==
    IF i >= NumClasses THEN -1
    ELSE IF size <= small_block_sizes[i] THEN i
    ELSE FindFrom(size, i + 1)


\* find_pool_index that sends an oversized request to the largest class
find_pool_index_Clamped(size) ==
    IF FindFrom(size, 0) = -1 THEN NumClasses - 1 ELSE FindFrom(size, 0)

\* find_pool_index comparing with < : a request of exactly a class size
\* goes to the next class
find_pool_index_Strict(size) == FindFrom(size + 1, 0)

\* Memory_Pool::find_pool_index
find_pool_index(size) == FindFrom(size, 0)


\* --------------------------------------------------------------- the state
\* A header as Fixed_Size_Pool::allocate writes it when it carves a block
CarveHeader(i) ==
    [size |-> PoolBlockSize(i), block_size |-> PoolBlockSize(i),
     in_use |-> TRUE, pool_ptr |-> i]

\* The bytes in front of a raw malloc region, read as a header: never
\* written by this code, hence indeterminate.  Three representative values:
\* zero bytes, allocator bookkeeping (a non-null word that is no pool), and a
\* bit pattern equal to a header of the 64-byte pool.
GarbageHeaders ==
    { [size |-> 0, block_size |-> 0, in_use |-> FALSE, pool_ptr |-> NoPool],
      [size |-> 48, block_size |-> 2016, in_use |-> TRUE, pool_ptr |-> WildPtr],
      [size |-> 64, block_size |-> 64, in_use |-> TRUE, pool_ptr |-> 3] }

NoHeader == [size |-> 0, block_size |-> 0, in_use |-> FALSE, pool_ptr |-> NoPool]

\* Fixed_Size_Pool after construction
NewPool(i) ==
    [block_size_ |-> PoolBlockSize(i), free_blocks_ |-> <<>>, mutex_ |-> 0,
     current_used_ |-> 0, current_free_ |-> 0, total_allocated_ |-> 0]

\* Thread_Local_Cache as get_tls_cache creates it
NewCache == [cache |-> [i \in PoolIdx |-> <<>>], cache_size |-> TlsCacheSize]

\* the thread-local pointer before get_tls_cache has run: no cache
NoCache == [cache |-> [i \in PoolIdx |-> <<>>], cache_size |-> 0]

ZeroStats ==
    [total_allocated |-> 0, total_freed |-> 0, current_used |-> 0,
     current_free |-> 0, alloc_count |-> 0, free_count |-> 0,
     fragment_count |-> 0]

\* A Memory_Pool_RAII handle: none constructed yet, alive, gone because its
\* constructor threw, or destroyed.  deallocs counts the deallocate calls
\* made on its behalf.
NoHandle ==
    [state |-> "none", memory_ptr_ |-> NULL, size_ |-> 0, deallocs |-> 0]

NoCall == [op |-> "none", size |-> 0, ptr |-> NULL, before |-> <<>>]
NoFrame == [call |-> NoCall, idx |-> -1, ptr |-> NULL, new_ptr |-> NULL]

\* What a caller can observe of the allocator between calls
Obs ==
    [stats |-> stats, pools |-> pools, tls_cache |-> tls_cache,
     heap |-> heap, hdr |-> hdr, held |-> held, req |-> req,
     shutdown |-> shutdown]

\* The pools, statistics and heap right after the constructor.
Constructed ==
    /\ stats = ZeroStats
    /\ pools = [i \in PoolIdx |-> NewPool(i)]
    /\ tls_cache = [t \in Threads |-> NoCache]
    /\ tls_initialized = [t \in Threads |-> FALSE]
    /\ heap = [a \in Addr |-> "unmapped"]
    /\ hdr = [a \in Addr |-> NoHeader]
    /\ held = [a \in Addr |-> 0]
    /\ req = [a \in Addr |-> 0]

\* State right after the constructor; no thread has called anything.
InitFresh ==
    /\ enable_tls \in BOOLEAN
    /\ alignment \in Alignments
    /\ Constructed

\* State after thread 1 has allocated TlsCacheSize + 1 blocks of 64 bytes and
\* deallocated the first TlsCacheSize of them: its stash for that class is
\* full and it still holds the last block.  (A program state like any other;
\* starting there lets the bounded runs reach the full-stash paths.)
WarmClass == FindFrom(64, 0)
WarmBlocks == TlsCacheSize + 1
WarmBytes == WarmBlocks * small_block_sizes[WarmClass]

InitWarm ==
    /\ enable_tls = TRUE
    /\ alignment \in Alignments
    /\ stats = [total_allocated |-> WarmBytes, total_freed |-> 0,
                current_used |-> WarmBytes, current_free |-> 0 - WarmBytes,
                alloc_count |-> WarmBlocks, free_count |-> TlsCacheSize,
                fragment_count |-> 0]
    /\ pools = [i \in PoolIdx |->
                  IF i = WarmClass
                  THEN [NewPool(i) EXCEPT !.current_used_ = WarmBlocks,
                                          !.total_allocated_ = WarmBlocks]
                  ELSE NewPool(i)]
    /\ tls_cache = [t \in Threads |->
                      IF t = 1
                      THEN [NewCache EXCEPT !.cache[WarmClass] =
                                [k \in 1..TlsCacheSize |-> k]]
                      ELSE NoCache]
    /\ tls_initialized = [t \in Threads |-> t = 1]
    /\ heap = [a \in Addr |-> IF a <= WarmBlocks THEN "carved" ELSE "unmapped"]
    /\ hdr = [a \in Addr |->
                IF a <= WarmBlocks THEN CarveHeader(WarmClass) ELSE NoHeader]
    /\ held = [a \in Addr |-> IF a = WarmBlocks THEN 1 ELSE 0]
    /\ req = [a \in Addr |->
                IF a <= WarmBlocks THEN small_block_sizes[WarmClass] ELSE 0]

\* A second Memory_Pool object: none was constructed, or one constructed
\* with the same arguments as the first.  Its eight pools are other objects
\* than the first one's: OtherPool(i) is the identity of its pool i.
OtherPool(i) == NumClasses + i

NoInstance == [built |-> FALSE, shutdown |-> FALSE, stats |-> ZeroStats,
               pools |-> [i \in PoolIdx |-> NewPool(i)]]

NewInstance == [NoInstance EXCEPT !.built = TRUE]

\* No caller is inside a call; the maintenance thread, started by the
\* constructor, is about to test the shutdown flag; the destructor has not
\* begun.
NoCallYet ==
    /\ shutdown = FALSE
    /\ crashed = FALSE
    /\ cleaner = [pc |-> "test", passed |-> FALSE]
    /\ dtor = "none"
    /\ raii = [t \in Threads |-> NoHandle]
    /\ pc = [t \in Threads |-> "idle"]
    /\ frame = [t \in Threads |-> NoFrame]
    /\ stale = {}
    /\ hist = [t \in Threads |-> <<>>]
    /\ ncalls = 0

\* The same, in a process with this one Memory_Pool only.
Quiet ==
    /\ NoCallYet
    /\ other = NoInstance

Init ==
    /\ InitFresh \/ InitWarm
    /\ Quiet

\* State after a thread has allocated IdleBlocks blocks of 64 bytes from a
\* pool without thread caches and deallocated them all, in the order it got
\* them: they all sit in that pool's free list.  The heap has room for a few
\* regions more.
IdleBlocks == MaxIdleBlocks + 1
IdleBytes == IdleBlocks * small_block_sizes[WarmClass]
IdleAddr == 1..(IdleBlocks + 2)

InitIdle ==
    /\ enable_tls = FALSE
    /\ alignment \in Alignments
    /\ stats = [total_allocated |-> IdleBytes, total_freed |-> IdleBytes,
                current_used |-> 0, current_free |-> 0,
                alloc_count |-> IdleBlocks, free_count |-> IdleBlocks,
                fragment_count |-> 0]
    /\ pools = [i \in PoolIdx |->
                  IF i = WarmClass
                  THEN [NewPool(i) EXCEPT
                          !.free_blocks_ = [k \in 1..IdleBlocks |-> k],
                          !.current_free_ = IdleBlocks,
                          !.total_allocated_ = IdleBlocks]
                  ELSE NewPool(i)]
    /\ tls_cache = [t \in Threads |-> NoCache]
    /\ tls_initialized = [t \in Threads |-> FALSE]
    /\ heap = [a \in IdleAddr |->
                 IF a <= IdleBlocks THEN "carved" ELSE "unmapped"]
    /\ hdr = [a \in IdleAddr |->
                IF a <= IdleBlocks
                THEN [CarveHeader(WarmClass) EXCEPT !.in_use = FALSE]
                ELSE NoHeader]
    /\ held = [a \in IdleAddr |-> 0]
    /\ req = [a \in IdleAddr |->
                IF a <= IdleBlocks THEN small_block_sizes[WarmClass] ELSE 0]
    /\ Quiet

\* Two Memory_Pool objects in one process: the first fresh, or used by
\* thread 1 as in InitWarm; the second fresh.
InitTwo ==
    /\ InitFresh \/ InitWarm
    /\ NoCallYet
    /\ other = NewInstance

\* A fresh pool constructed with any of the wider range of alignments.
InitAlign ==
    /\ enable_tls \in BOOLEAN
    /\ alignment \in WideAlignments
    /\ Constructed
    /\ Quiet

\* ------------------------------------------------- calls, returns, callers
\* Bookkeeping of every step: a step that starts a call counts it.
Tick(start) == ncalls' = IF start THEN ncalls + 1 ELSE ncalls

\* The call goes on at label with locals fr.
Jump(t, label, fr) ==
    /\ pc' = [pc EXCEPT ![t] = label]
    /\ frame' = [frame EXCEPT ![t] = fr]
    /\ UNCHANGED <<held, req, stale, hist, raii>>

\* call c gives a block back: deallocate, or ~Memory_Pool_RAII
IsRelease(c) == c.op \in {"deallocate", "raii_dtor", "other_deallocate"}

\* What the caller holds after call c returned val.
HeldAfter(c, val) ==
    IF IsRelease(c)
    THEN (IF c.ptr # NULL /\ held[c.ptr] > 0
          THEN [held EXCEPT ![c.ptr] = @ - 1] ELSE held)
    ELSE IF val = NULL \/ val = c.ptr THEN held
    ELSE IF c.op = "reallocate" /\ c.ptr # NULL /\ held[c.ptr] > 0
    THEN [held EXCEPT ![val] = @ + 1, ![c.ptr] = @ - 1]
    ELSE [held EXCEPT ![val] = @ + 1]

StaleAfter(c, val) ==
    IF IsRelease(c)
    THEN (IF c.ptr # NULL THEN stale \cup {c.ptr} ELSE stale)
    ELSE IF val = NULL \/ val = c.ptr THEN stale
    ELSE IF c.op = "reallocate" /\ c.ptr # NULL
    THEN (stale \cup {c.ptr}) \ {val}
    ELSE stale \ {val}

ReqAfter(c, val) ==
    IF IsRelease(c) \/ val = NULL \/ val = c.ptr THEN req
    ELSE [req EXCEPT ![val] = c.size]

\* a Memory_Pool_RAII constructor that returns normally whatever allocate
\* gave it
RaiiConstructed_NoThrow(size, val) ==
    [state |-> "alive", memory_ptr_ |-> val, size_ |-> size, deallocs |-> 0]

\* Memory_Pool_RAII constructor, after pool_.allocate(size) returned val:
\* a null result throws, so no object comes to exist
RaiiConstructed(size, val) ==
    IF val = NULL
    THEN [state |-> "threw", memory_ptr_ |-> NULL, size_ |-> size,
          deallocs |-> 0]
    ELSE [state |-> "alive", memory_ptr_ |-> val, size_ |-> size,
          deallocs |-> 0]

\* ~Memory_Pool_RAII has run: deallocate was called if memory_ptr_ was set
RaiiDestroyed(h) ==
    [h EXCEPT !.state = "destroyed",
              !.deallocs = IF h.memory_ptr_ # NULL THEN @ + 1 ELSE @]

\* the handle of the calling thread after call c returned val
RaiiAfter(t, c, val) ==
    IF c.op = "raii_ctor" THEN RaiiConstructed(c.size, val)
    ELSE IF c.op = "raii_dtor" THEN RaiiDestroyed(raii[t])
    ELSE raii[t]

\* The top-level call c of thread t returns val to its caller.
Return(t, c, val) ==
    /\ pc' = [pc EXCEPT ![t] = "idle"]
    /\ frame' = [frame EXCEPT ![t] = NoFrame]
    /\ raii' = [raii EXCEPT ![t] = RaiiAfter(t, c, val)]
    /\ held' = HeldAfter(c, val)
    /\ stale' = StaleAfter(c, val)
    /\ req' = ReqAfter(c, val)
    /\ hist' = [hist EXCEPT ![t] =
                  <<[op |-> c.op, size |-> c.size, ptr |-> c.ptr,
                     before |-> c.before, ret |-> val]>>
                  \o (IF Len(@) = 0 THEN <<>> ELSE <<@[1]>>)]


\* ------------------------------------------------------ platform allocator
\* The address the caller gets for region a: a pool block starts header_size
\* bytes into its region, a large block at its base.
UserAddress(a) ==
    IF heap[a] = "carved" THEN BaseAddress(a) + header_size
    ELSE BaseAddress(a)

Unmapped == {a \in DOMAIN heap : heap[a] = "unmapped"}

\* std::malloc: fails (NULL) or returns a region that is not in use.  Nothing
\* in the code depends on which one, so the lowest stands for all of them.
MallocChoices ==
    {NULL} \cup (IF Unmapped = {} THEN {}
                 ELSE {CHOOSE a \in Unmapped : \A b \in Unmapped : a <= b})

\* std::free(user address - header_size) is given the base of a region
\* exactly when the block was carved by a pool and is still mapped.
FreeIsValid(ptr) == heap[ptr] = "carved"

\* ---------------------------------------------------------- thread cache
\* Memory_Pool::get_tls_cache, for a pool with enable_tls: the calling
\* thread's cache, created on first use.
get_tls_cache(t) == IF tls_initialized[t] THEN tls_cache[t] ELSE NewCache

\* allocate_from_tls that never finds a block: every allocate goes to the
\* pool
TlsHasBlock_Never(tc, idx) == FALSE

\* allocate_from_tls: is there a block to take
TlsHasBlock(tc, idx) == Len(tc.cache[idx]) > 0

\* allocate_from_tls: cache[idx].back()
TlsBack(tc, idx) == tc.cache[idx][Len(tc.cache[idx])]


\* allocate_from_tls that forgets pop_back(): the block stays in the stash
TlsPopBack_NoPop(tc, idx) == tc

\* allocate_from_tls: cache[idx].pop_back()
TlsPopBack(tc, idx) ==
    [tc EXCEPT !.cache[idx] = SubSeq(@, 1, Len(@) - 1)]

\* return_to_tls comparing with <= : a full stash takes one more block
TlsHasRoom_OneMore(tc, idx) == Len(tc.cache[idx]) <= tc.cache_size

\* return_to_tls: is there room for one more block
TlsHasRoom(tc, idx) == Len(tc.cache[idx]) < tc.cache_size

\* return_to_tls: cache[idx].push_back(ptr)
TlsPushBack(tc, idx, ptr) == [tc EXCEPT !.cache[idx] = Append(@, ptr)]

\* ------------------------------------------------------- Fixed_Size_Pool
\* allocate, fast path: pop the front of the free list
PoolPopFront(p) ==
    [p EXCEPT !.free_blocks_ = Tail(@),
              !.current_used_ = @ + 1,
              !.current_free_ = @ - 1]

\* allocate, fast path: the header of the block handed out (left as it is)
ReissuedHeader(h) == h

\* allocate, slow path: counters after carving a new block
PoolCarved(p) ==
    [p EXCEPT !.current_used_ = @ + 1, !.total_allocated_ = @ + 1]

\* deallocate: the header validation, done before the lock is taken
HeaderValid(h, i) == h.pool_ptr = i /\ h.in_use


\* deallocate that forgets to clear in_use
ReleasedHeader_StillInUse(h) == h

\* deallocate, under the lock: the header of the block put back
ReleasedHeader(h) == [h EXCEPT !.in_use = FALSE]

\* deallocate that pushes the block and forgets current_free_
PoolPushBack_NoFreeCount(p, ptr) ==
    [p EXCEPT !.free_blocks_ = Append(@, ptr),
              !.current_used_ = @ - 1]

\* deallocate that puts the block at the front of the list: the block freed
\* last is the first to go out again
PoolPushBack_Front(p, ptr) ==
    [p EXCEPT !.free_blocks_ = <<ptr>> \o @,
              !.current_used_ = @ - 1,
              !.current_free_ = @ + 1]

\* deallocate, under the lock: push_back and the counters
PoolPushBack(p, ptr) ==
    [p EXCEPT !.free_blocks_ = Append(@, ptr),
              !.current_used_ = @ - 1,
              !.current_free_ = @ + 1]

Unlock(p) == [p EXCEPT !.mutex_ = 0]

\* ------------------------------------------------------------ statistics
\* allocate: a block taken from the thread cache
StatsTlsHit(s, n) ==
    [s EXCEPT !.total_allocated = @ + n, !.current_used = @ + n]

\* allocate: a block obtained from the global pool
StatsPoolAlloc(s, n) ==
    [s EXCEPT !.total_allocated = @ + n, !.current_used = @ + n,
              !.current_free = @ - n]

\* allocate: a block obtained from malloc
StatsLargeAlloc(s, n) ==
    [s EXCEPT !.total_allocated = @ + n, !.current_used = @ + n]

\* deallocate that, after the pool took the block, forgets current_used
StatsPoolFree_KeepsUsed(s, n) ==
    [s EXCEPT !.total_freed = @ + n, !.current_free = @ + n]

\* deallocate: after pools_[i]->deallocate(ptr) returned
StatsPoolFree(s, n) ==
    [s EXCEPT !.total_freed = @ + n, !.current_used = @ - n,
              !.current_free = @ + n]

\* deallocate: after std::free(header)
StatsLargeFree(s, n) ==
    [s EXCEPT !.total_freed = @ + n, !.current_used = @ - n]

\* deallocate: a block the thread cache accepted (no statistic but the count)
StatsTlsPut(s, n) == s

CountAlloc(s) == [s EXCEPT !.alloc_count = @ + 1]
CountFree(s) == [s EXCEPT !.free_count = @ + 1]


\* reallocate without the lower half of its test
SameBlock_NoLowerHalf(new_size, old_size) == new_size <= old_size

\* -------------------------------------------------------------- reallocate
\* the test that returns the old pointer unchanged
SameBlock(new_size, old_size) ==
    new_size <= old_size /\ new_size > old_size \div 2


\* reallocate that releases the old block without looking at new_ptr
ReallocAfterAllocate_FreesAnyway(t, c, r) ==
    Jump(t, "realloc_copy",
         [call |-> c, idx |-> -1, ptr |-> c.ptr, new_ptr |-> r])

\* reallocate after allocate(new_size) returned r: give up on NULL,
\* otherwise go on to copy and to release the old block
ReallocAfterAllocate(t, c, r) ==
    IF r = NULL
    THEN Return(t, c, NULL)
    ELSE Jump(t, "realloc_copy",
              [call |-> c, idx |-> -1, ptr |-> c.ptr, new_ptr |-> r])

\* allocate returns r: to the caller, or into reallocate
AllocRet(t, c, r) ==
    IF c.op = "allocate" \/ c.ptr = NULL
    THEN Return(t, c, r)
    ELSE ReallocAfterAllocate(t, c, r)

\* deallocate returns: to the caller, or into reallocate, which returns np
DeallocRet(t, c, np) ==
    IF IsRelease(c) THEN Return(t, c, NULL) ELSE Return(t, c, np)


\* ------------------------------------------------------ Memory_Pool::allocate
\* allocate that refuses only once shut down, and serves a request of size 0
Refused_ZeroServed(size) == shutdown

\* allocate: the requests refused at once
Refused(size) == shutdown \/ size = 0

\* allocate(size), up to its return or to the call of pools_[idx]->allocate()
allocate(t, size, c) ==
    IF Refused(size)
    THEN /\ AllocRet(t, c, NULL)
         /\ UNCHANGED <<stats, pools, tls_cache, tls_initialized, heap, hdr,
                        crashed>>
    ELSE
      LET idx == find_pool_index(size) IN
      IF idx >= 0
      THEN
        LET tc == get_tls_cache(t)
            n == small_block_sizes[idx] IN
        /\ UNCHANGED <<pools, heap, hdr, crashed>>
        /\ tls_initialized' =
              IF enable_tls THEN [tls_initialized EXCEPT ![t] = TRUE]
              ELSE tls_initialized
        /\ IF enable_tls /\ TlsHasBlock(tc, idx)
           THEN /\ tls_cache' = [tls_cache EXCEPT ![t] = TlsPopBack(tc, idx)]
                /\ stats' = StatsTlsHit(CountAlloc(stats), n)
                /\ AllocRet(t, c, TlsBack(tc, idx))
           ELSE /\ tls_cache' = IF enable_tls
                                THEN [tls_cache EXCEPT ![t] = tc]
                                ELSE tls_cache
                /\ stats' = CountAlloc(stats)
                /\ Jump(t, "pool_alloc",
                        [call |-> c, idx |-> idx, ptr |-> NULL,
                         new_ptr |-> NULL])
      ELSE
        \E r \in MallocChoices :
          /\ UNCHANGED <<pools, tls_cache, tls_initialized, crashed>>
          /\ IF r = NULL
             THEN /\ stats' = CountAlloc(stats)
                  /\ UNCHANGED <<heap, hdr>>
             ELSE /\ stats' = StatsLargeAlloc(CountAlloc(stats), size)
                  /\ heap' = [heap EXCEPT ![r] = "raw"]
                  /\ \E g \in GarbageHeaders : hdr' = [hdr EXCEPT ![r] = g]
          /\ AllocRet(t, c, r)

\* Fixed_Size_Pool::allocate: std::lock_guard takes the pool's mutex
PoolAllocLock(t) ==
    /\ pc[t] = "pool_alloc" /\ ~crashed
    /\ pools[frame[t].idx].mutex_ = 0
    /\ pools' = [pools EXCEPT ![frame[t].idx].mutex_ = t]
    /\ Jump(t, "pool_alloc_cs", frame[t])
    /\ Tick(FALSE)
    /\ UNCHANGED <<other, enable_tls, alignment, shutdown, cleaner, dtor, stats, tls_cache,
                   tls_initialized, heap, hdr, crashed>>

\* Fixed_Size_Pool::allocate under the lock, the unlock, and the statistics
\* Memory_Pool::allocate adds when a block came back
PoolAllocBody(t) ==
    /\ pc[t] = "pool_alloc_cs" /\ ~crashed
    /\ LET f == frame[t]
           i == f.idx
           p == pools[i]
           n == small_block_sizes[i] IN
       IF Len(p.free_blocks_) > 0
       THEN LET ptr == Head(p.free_blocks_) IN
            /\ pools' = [pools EXCEPT ![i] = Unlock(PoolPopFront(p))]
            /\ hdr' = [hdr EXCEPT ![ptr] = ReissuedHeader(@)]
            /\ stats' = StatsPoolAlloc(stats, n)
            /\ UNCHANGED heap
            /\ AllocRet(t, f.call, ptr)
       ELSE \E r \in MallocChoices :
              IF r = NULL
              THEN /\ pools' = [pools EXCEPT ![i] = Unlock(p)]
                   /\ UNCHANGED <<hdr, heap, stats>>
                   /\ AllocRet(t, f.call, NULL)
              ELSE /\ pools' = [pools EXCEPT ![i] = Unlock(PoolCarved(p))]
                   /\ hdr' = [hdr EXCEPT ![r] = CarveHeader(i)]
                   /\ heap' = [heap EXCEPT ![r] = "carved"]
                   /\ stats' = StatsPoolAlloc(stats, n)
                   /\ AllocRet(t, f.call, r)
    /\ Tick(FALSE)
    /\ UNCHANGED <<other, enable_tls, alignment, shutdown, cleaner, dtor, tls_cache,
                   tls_initialized, crashed>>

\* ---------------------------------------------------- Memory_Pool::deallocate
\* the pool a header names, as deallocate works it out: an index, or -1
OwnerIndex(h) ==
    IF h.pool_ptr = NoPool THEN -1
    ELSE LET idx == find_pool_index(h.block_size) IN
         IF idx >= 0 /\ h.pool_ptr = idx THEN idx ELSE -1

\* deallocate(ptr), up to its return or to the call of
\* pools_[idx]->deallocate(ptr); np is what an enclosing reallocate returns
deallocate(t, ptr, c, np) ==
    IF ptr = NULL
    THEN /\ DeallocRet(t, c, np)
         /\ UNCHANGED <<stats, pools, tls_cache, tls_initialized, heap, hdr,
                        crashed>>
    ELSE
      LET h == hdr[ptr]
          idx == OwnerIndex(h) IN
      IF idx >= 0
      THEN
        LET tc == get_tls_cache(t) IN
        /\ UNCHANGED <<pools, heap, hdr, crashed>>
        /\ tls_initialized' =
              IF enable_tls THEN [tls_initialized EXCEPT ![t] = TRUE]
              ELSE tls_initialized
        /\ IF enable_tls /\ TlsHasRoom(tc, idx)
           THEN /\ tls_cache' =
                      [tls_cache EXCEPT ![t] = TlsPushBack(tc, idx, ptr)]
                /\ stats' = StatsTlsPut(CountFree(stats),
                                        small_block_sizes[idx])
                /\ DeallocRet(t, c, np)
           ELSE /\ tls_cache' = IF enable_tls
                                THEN [tls_cache EXCEPT ![t] = tc]
                                ELSE tls_cache
                /\ stats' = CountFree(stats)
                /\ Jump(t, "pool_dealloc",
                        [call |-> c, idx |-> idx, ptr |-> ptr,
                         new_ptr |-> np])
      ELSE
        /\ UNCHANGED <<pools, tls_cache, tls_initialized, hdr>>
        /\ IF FreeIsValid(ptr)
           THEN /\ heap' = [heap EXCEPT ![ptr] = "unmapped"]
                /\ stats' = StatsLargeFree(CountFree(stats), h.size)
                /\ crashed' = FALSE
                /\ DeallocRet(t, c, np)
           ELSE \* std::free of a pointer malloc never returned: undefined.
                \* The platform either aborts the process or goes on
                \* without releasing anything.
                \/ /\ crashed' = TRUE
                   /\ stats' = CountFree(stats)
                   /\ UNCHANGED heap
                   /\ Jump(t, "aborted", frame[t])
                \/ /\ crashed' = FALSE
                   /\ stats' = StatsLargeFree(CountFree(stats), h.size)
                   /\ UNCHANGED heap
                   /\ DeallocRet(t, c, np)

\* Fixed_Size_Pool::deallocate: the header validation, before the lock; on
\* failure the pool returns at once and Memory_Pool::deallocate still adds
\* its statistics
PoolDeallocCheck(t) ==
    /\ pc[t] = "pool_dealloc" /\ ~crashed
    /\ LET f == frame[t] IN
       IF HeaderValid(hdr[f.ptr], f.idx)
       THEN /\ Jump(t, "pool_dealloc_lock", f)
            /\ UNCHANGED stats
       ELSE /\ stats' = StatsPoolFree(stats, small_block_sizes[f.idx])
            /\ DeallocRet(t, f.call, f.new_ptr)
    /\ Tick(FALSE)
    /\ UNCHANGED <<other, enable_tls, alignment, shutdown, cleaner, dtor, pools, tls_cache,
                   tls_initialized, heap, hdr, crashed>>

\* Fixed_Size_Pool::deallocate: std::lock_guard takes the pool's mutex
PoolDeallocLock(t) ==
    /\ pc[t] = "pool_dealloc_lock" /\ ~crashed
    /\ pools[frame[t].idx].mutex_ = 0
    /\ pools' = [pools EXCEPT ![frame[t].idx].mutex_ = t]
    /\ Jump(t, "pool_dealloc_cs", frame[t])
    /\ Tick(FALSE)
    /\ UNCHANGED <<other, enable_tls, alignment, shutdown, cleaner, dtor, stats, tls_cache,
                   tls_initialized, heap, hdr, crashed>>

\* Fixed_Size_Pool::deallocate under the lock, the unlock, and the
\* statistics Memory_Pool::deallocate adds afterwards
PoolDeallocBody(t) ==
    /\ pc[t] = "pool_dealloc_cs" /\ ~crashed
    /\ LET f == frame[t]
           i == f.idx IN
       /\ hdr' = [hdr EXCEPT ![f.ptr] = ReleasedHeader(@)]
       /\ pools' = [pools EXCEPT ![i] = Unlock(PoolPushBack(pools[i], f.ptr))]
       /\ stats' = StatsPoolFree(stats, small_block_sizes[i])
       /\ DeallocRet(t, f.call, f.new_ptr)
    /\ Tick(FALSE)
    /\ UNCHANGED <<other, enable_tls, alignment, shutdown, cleaner, dtor, tls_cache,
                   tls_initialized, heap, crashed>>

\* ------------------------------------------------------------ the callers
HeldPtrs == {a \in DOMAIN held : held[a] > 0}

\* addresses some call in progress was given
InFlight == {frame[u].call.ptr : u \in {v \in Threads : pc[v] # "idle"}}

\* A caller may pass an address it holds and that no other call is using.
Usable == HeldPtrs \ InFlight

\* (no call is started on a Memory_Pool whose destructor has finished)
CanCall(t) ==
    pc[t] = "idle" /\ ~crashed /\ ncalls < MaxCalls /\ dtor # "done"

Call(op, size, ptr) == [op |-> op, size |-> size, ptr |-> ptr, before |-> Obs]

\* a thread calls allocate(size), size drawn from sizes
Allocate(t, sizes) ==
    /\ CanCall(t)
    /\ \E size \in sizes : allocate(t, size, Call("allocate", size, NULL))
    /\ Tick(TRUE)
    /\ UNCHANGED <<other, enable_tls, alignment, shutdown, cleaner, dtor>>

\* a thread calls deallocate(ptr) with an address it holds, or with NULL
Deallocate(t) ==
    /\ CanCall(t)
    /\ \E ptr \in Usable \cup {NULL} :
          deallocate(t, ptr, Call("deallocate", 0, ptr), NULL)
    /\ Tick(TRUE)
    /\ UNCHANGED <<other, enable_tls, alignment, shutdown, cleaner, dtor>>

\* reallocate(ptr, new_size) up to the first step of allocate(new_size)
reallocate(t, ptr, new_size, c) ==
    IF ptr = NULL
    THEN allocate(t, new_size, c)
    ELSE IF SameBlock(new_size, hdr[ptr].size)
    THEN /\ Return(t, c, ptr)
         /\ UNCHANGED <<stats, pools, tls_cache, tls_initialized, heap, hdr,
                        crashed>>
    ELSE allocate(t, new_size, c)

\* a thread calls reallocate(ptr, new_size)
Reallocate(t) ==
    /\ CanCall(t)
    /\ \E ptr \in Usable \cup {NULL} : \E new_size \in ReallocSizes :
          reallocate(t, ptr, new_size, Call("reallocate", new_size, ptr))
    /\ Tick(TRUE)
    /\ UNCHANGED <<other, enable_tls, alignment, shutdown, cleaner, dtor>>

\* reallocate: memcpy into the new block, then deallocate(ptr)
ReallocFree(t) ==
    /\ pc[t] = "realloc_copy" /\ ~crashed
    /\ deallocate(t, frame[t].ptr, frame[t].call, frame[t].new_ptr)
    /\ Tick(FALSE)
    /\ UNCHANGED <<other, enable_tls, alignment, shutdown, cleaner, dtor>>

\* ~Memory_Pool sets the shutdown flag
DtorShutdown ==
    /\ dtor = "none" /\ ~crashed
    /\ shutdown' = TRUE
    /\ dtor' = "join"
    /\ UNCHANGED <<other, enable_tls, alignment, stats, pools, tls_cache,
                   tls_initialized, heap, hdr, crashed, cleaner, raii, pc,
                   frame, held, req, stale, hist, ncalls>>

\* a maintenance loop that never looks at the flag
CleanerNext_Deaf(flag) == "sleep"

\* cleanup_thread_func: while (!shutdown_)
CleanerNext(flag) == IF flag THEN "exited" ELSE "sleep"

\* the maintenance thread tests the shutdown flag
CleanerTest ==
    /\ cleaner.pc = "test" /\ ~crashed
    /\ cleaner' = [cleaner EXCEPT !.pc = CleanerNext(shutdown)]
    /\ UNCHANGED <<other, enable_tls, alignment, shutdown, stats, pools, tls_cache,
                   tls_initialized, heap, hdr, crashed, dtor, raii, pc,
                   frame, held, req, stale, hist, ncalls>>

\* Memory_Pool::cleanup_idle_blocks: the whole maintenance pass
cleanup_idle_blocks(s) == [s EXCEPT !.fragment_count = 0]

\* sleep_for(cleanup_interval) returns and the maintenance pass runs
CleanerPass ==
    /\ cleaner.pc = "sleep" /\ ~crashed
    /\ stats' = cleanup_idle_blocks(stats)
    /\ cleaner' = [pc |-> "test", passed |-> TRUE]
    /\ UNCHANGED <<other, enable_tls, alignment, shutdown, pools, tls_cache,
                   tls_initialized, heap, hdr, crashed, dtor, raii, pc,
                   frame, held, req, stale, hist, ncalls>>

\* State after a thread has allocated one block of 64 bytes from a pool
\* without thread caches and still holds it.
InitHeld ==
    /\ enable_tls = FALSE
    /\ alignment \in Alignments
    /\ stats = StatsPoolAlloc(CountAlloc(ZeroStats),
                              small_block_sizes[WarmClass])
    /\ pools = [i \in PoolIdx |->
                  IF i = WarmClass THEN PoolCarved(NewPool(i))
                  ELSE NewPool(i)]
    /\ tls_cache = [t \in Threads |-> NoCache]
    /\ tls_initialized = [t \in Threads |-> FALSE]
    /\ heap = [a \in Addr |-> IF a = 1 THEN "carved" ELSE "unmapped"]
    /\ hdr = [a \in Addr |->
                IF a = 1 THEN CarveHeader(WarmClass) ELSE NoHeader]
    /\ held = [a \in Addr |-> IF a = 1 THEN 1 ELSE 0]
    /\ req = [a \in Addr |->
                IF a = 1 THEN small_block_sizes[WarmClass] ELSE 0]
    /\ Quiet

\* State after a thread has allocated FifoBlocks blocks of 64 bytes from a
\* pool without thread caches and deallocated all but the last, in the
\* order it got them: they sit in the free list, oldest first, and the last
\* block is still held.
FifoBlocks == 3
FifoFree == FifoBlocks - 1

InitFifo ==
    /\ enable_tls = FALSE
    /\ alignment \in Alignments
    /\ stats = [total_allocated |-> FifoBlocks * small_block_sizes[WarmClass],
                total_freed |-> FifoFree * small_block_sizes[WarmClass],
                current_used |-> small_block_sizes[WarmClass],
                current_free |-> 0 - small_block_sizes[WarmClass],
                alloc_count |-> FifoBlocks, free_count |-> FifoFree,
                fragment_count |-> 0]
    /\ pools = [i \in PoolIdx |->
                  IF i = WarmClass
                  THEN [NewPool(i) EXCEPT
                          !.free_blocks_ = [k \in 1..FifoFree |-> k],
                          !.current_used_ = 1,
                          !.current_free_ = FifoFree,
                          !.total_allocated_ = FifoBlocks]
                  ELSE NewPool(i)]
    /\ tls_cache = [t \in Threads |-> NoCache]
    /\ tls_initialized = [t \in Threads |-> FALSE]
    /\ heap = [a \in Addr |-> IF a <= FifoBlocks THEN "carved" ELSE "unmapped"]
    /\ hdr = [a \in Addr |->
                IF a < FifoBlocks THEN ReleasedHeader(CarveHeader(WarmClass))
                ELSE IF a = FifoBlocks THEN CarveHeader(WarmClass)
                ELSE NoHeader]
    /\ held = [a \in Addr |-> IF a = FifoBlocks THEN 1 ELSE 0]
    /\ req = [a \in Addr |->
                IF a <= FifoBlocks THEN small_block_sizes[WarmClass] ELSE 0]
    /\ Quiet

\* a thread calls deallocate(ptr) with a held address, whether or not
\* another thread is deallocating the same address at this moment
DeallocateShared(t) ==
    /\ CanCall(t)
    /\ \E ptr \in HeldPtrs :
          deallocate(t, ptr, Call("deallocate", 0, ptr), NULL)
    /\ Tick(TRUE)
    /\ UNCHANGED <<other, enable_tls, alignment, shutdown, cleaner, dtor>>

\* a thread calls cleanup(): an immediate maintenance pass
Cleanup(t) ==
    /\ CanCall(t)
    /\ stats' = cleanup_idle_blocks(stats)
    /\ Return(t, Call("cleanup", 0, NULL), NULL)
    /\ Tick(TRUE)
    /\ UNCHANGED <<other, enable_tls, alignment, shutdown, cleaner, dtor, pools,
                   tls_cache, tls_initialized, heap, hdr, crashed>>

\* ~Memory_Pool: cleaner_thread_.join() returns once the thread has exited
DtorJoin ==
    /\ dtor = "join" /\ ~crashed
    /\ cleaner.pc = "exited"
    /\ dtor' = "clear"
    /\ UNCHANGED <<other, enable_tls, alignment, shutdown, stats, pools, tls_cache,
                   tls_initialized, heap, hdr, crashed, cleaner, raii, pc,
                   frame, held, req, stale, hist, ncalls>>

\* ~Memory_Pool: pools_.clear() destroys the eight Fixed_Size_Pool objects.
\* The class declares no destructor: the implicit one destroys the nodes of
\* free_blocks_ and hands no block to std::free, so the heap is as it was.
\* pools keeps what the objects held when they were destroyed.
DtorClear ==
    /\ dtor = "clear" /\ ~crashed
    /\ dtor' = "done"
    /\ UNCHANGED <<other, enable_tls, alignment, shutdown, stats, pools, tls_cache,
                   tls_initialized, heap, hdr, crashed, cleaner, raii, pc,
                   frame, held, req, stale, hist, ncalls>>

\* A call still inside a pool when the pools are destroyed uses freed
\* objects: undefined.  It goes on over the stale contents (the steps of
\* PoolStep) or the process is aborted (this step).
UseAfterDestroy(t) ==
    /\ dtor = "done" /\ ~crashed
    /\ pc[t] \notin {"idle", "aborted"}
    /\ crashed' = TRUE
    /\ pc' = [pc EXCEPT ![t] = "aborted"]
    /\ UNCHANGED <<other, enable_tls, alignment, shutdown, stats, pools, tls_cache,
                   tls_initialized, heap, hdr, cleaner, dtor, raii, frame,
                   held, req, stale, hist, ncalls>>

\* a thread calls deallocate(ptr) again with an address already deallocated
\* (a caller's mistake)
DeallocateAgain(t) ==
    /\ CanCall(t)
    /\ \E ptr \in stale \ InFlight :
          deallocate(t, ptr, Call("deallocate", 0, ptr), NULL)
    /\ Tick(TRUE)
    /\ UNCHANGED <<other, enable_tls, alignment, shutdown, cleaner, dtor>>

\* Memory_Pool_RAII(pool, size): the constructor calls pool_.allocate(size)
RaiiCtor(t) ==
    /\ CanCall(t)
    /\ raii[t].state # "alive"
    /\ \E size \in AllocSizes :
          allocate(t, size, Call("raii_ctor", size, NULL))
    /\ Tick(TRUE)
    /\ UNCHANGED <<other, enable_tls, alignment, shutdown, cleaner, dtor>>

\* ~Memory_Pool_RAII: the handle goes out of scope
RaiiDtor(t) ==
    /\ CanCall(t)
    /\ raii[t].state = "alive"
    /\ LET h == raii[t]
           c == Call("raii_dtor", h.size_, h.memory_ptr_) IN
       IF h.memory_ptr_ # NULL
       THEN deallocate(t, h.memory_ptr_, c, NULL)
       ELSE /\ Return(t, c, NULL)
            /\ UNCHANGED <<stats, pools, tls_cache, tls_initialized, heap,
                           hdr, crashed>>
    /\ Tick(TRUE)
    /\ UNCHANGED <<other, enable_tls, alignment, shutdown, cleaner, dtor>>

\* ------------------------------------------- a second Memory_Pool object
\* get_tls_cache keeps the calling thread's cache in a function-local
\* static thread_local: one object per thread for the whole program, the
\* same whichever Memory_Pool the call is made on.  The calls below are
\* allocate and deallocate made on the second object; only the calling
\* thread uses that object, so its pool mutexes are always free and each
\* call is one step.

\* the header the second object's pool i writes when it carves a block
OtherCarveHeader(i) == [CarveHeader(i) EXCEPT !.pool_ptr = OtherPool(i)]

\* the pool of the second object a header names, as its deallocate works
\* it out
OtherOwnerIndex(h) ==
    IF h.pool_ptr = NoPool THEN -1
    ELSE LET idx == find_pool_index(h.block_size) IN
         IF idx >= 0 /\ h.pool_ptr = OtherPool(idx) THEN idx ELSE -1

\* Memory_Pool::allocate(size) on the second object
other_allocate(t, size, c) ==
    IF other.shutdown \/ size = 0
    THEN /\ Return(t, c, NULL)
         /\ UNCHANGED <<other, tls_cache, tls_initialized, heap, hdr>>
    ELSE
      LET idx == find_pool_index(size) IN
      IF idx >= 0
      THEN
        LET tc == get_tls_cache(t)
            n == small_block_sizes[idx]
            p == other.pools[idx] IN
        /\ tls_initialized' =
              IF enable_tls THEN [tls_initialized EXCEPT ![t] = TRUE]
              ELSE tls_initialized
        /\ IF enable_tls /\ TlsHasBlock(tc, idx)
           THEN /\ tls_cache' = [tls_cache EXCEPT ![t] = TlsPopBack(tc, idx)]
                /\ other' = [other EXCEPT
                               !.stats = StatsTlsHit(CountAlloc(@), n)]
                /\ UNCHANGED <<heap, hdr>>
                /\ Return(t, c, TlsBack(tc, idx))
           ELSE /\ tls_cache' = IF enable_tls
                                THEN [tls_cache EXCEPT ![t] = tc]
                                ELSE tls_cache
                /\ IF Len(p.free_blocks_) > 0
                   THEN /\ other' = [other EXCEPT
                               !.pools[idx] = PoolPopFront(p),
                               !.stats = StatsPoolAlloc(CountAlloc(@), n)]
                        /\ UNCHANGED <<heap, hdr>>
                        /\ Return(t, c, Head(p.free_blocks_))
                   ELSE \E r \in MallocChoices :
                          IF r = NULL
                          THEN /\ other' = [other EXCEPT
                                              !.stats = CountAlloc(@)]
                               /\ UNCHANGED <<heap, hdr>>
                               /\ Return(t, c, NULL)
                          ELSE /\ other' = [other EXCEPT
                                  !.pools[idx] = PoolCarved(p),
                                  !.stats = StatsPoolAlloc(CountAlloc(@), n)]
                               /\ hdr' = [hdr EXCEPT
                                            ![r] = OtherCarveHeader(idx)]
                               /\ heap' = [heap EXCEPT ![r] = "carved"]
                               /\ Return(t, c, r)
      ELSE
        \E r \in MallocChoices :
          /\ UNCHANGED <<tls_cache, tls_initialized>>
          /\ IF r = NULL
             THEN /\ other' = [other EXCEPT !.stats = CountAlloc(@)]
                  /\ UNCHANGED <<heap, hdr>>
             ELSE /\ other' = [other EXCEPT
                     !.stats = StatsLargeAlloc(CountAlloc(@), size)]
                  /\ heap' = [heap EXCEPT ![r] = "raw"]
                  /\ \E g \in GarbageHeaders : hdr' = [hdr EXCEPT ![r] = g]
          /\ Return(t, c, r)

\* a thread calls allocate(size) on the second object
OtherAllocate(t) ==
    /\ CanCall(t) /\ other.built
    /\ \E size \in SharedSizes :
          other_allocate(t, size, Call("other_allocate", size, NULL))
    /\ Tick(TRUE)
    /\ UNCHANGED <<enable_tls, alignment, shutdown, stats, pools, crashed,
                   cleaner, dtor>>

\* Memory_Pool::deallocate(ptr) on the second object
other_deallocate(t, ptr, c) ==
    IF ptr = NULL
    THEN /\ Return(t, c, NULL)
         /\ UNCHANGED <<other, tls_cache, tls_initialized, heap, hdr,
                        crashed>>
    ELSE
      LET h == hdr[ptr]
          idx == OtherOwnerIndex(h) IN
      IF idx >= 0
      THEN
        LET tc == get_tls_cache(t)
            n == small_block_sizes[idx] IN
        /\ UNCHANGED <<heap, crashed>>
        /\ tls_initialized' =
              IF enable_tls THEN [tls_initialized EXCEPT ![t] = TRUE]
              ELSE tls_initialized
        /\ IF enable_tls /\ TlsHasRoom(tc, idx)
           THEN /\ tls_cache' =
                      [tls_cache EXCEPT ![t] = TlsPushBack(tc, idx, ptr)]
                /\ other' = [other EXCEPT
                               !.stats = StatsTlsPut(CountFree(@), n)]
                /\ UNCHANGED hdr
           ELSE /\ tls_cache' = IF enable_tls
                                THEN [tls_cache EXCEPT ![t] = tc]
                                ELSE tls_cache
                /\ IF HeaderValid(h, OtherPool(idx))
                   THEN /\ hdr' = [hdr EXCEPT ![ptr] = ReleasedHeader(@)]
                        /\ other' = [other EXCEPT
                              !.pools[idx] = PoolPushBack(@, ptr),
                              !.stats = StatsPoolFree(CountFree(@), n)]
                   ELSE /\ UNCHANGED hdr
                        /\ other' = [other EXCEPT
                              !.stats = StatsPoolFree(CountFree(@), n)]
        /\ Return(t, c, NULL)
      ELSE
        /\ UNCHANGED <<tls_cache, tls_initialized, hdr>>
        /\ IF FreeIsValid(ptr)
           THEN /\ heap' = [heap EXCEPT ![ptr] = "unmapped"]
                /\ other' = [other EXCEPT
                               !.stats = StatsLargeFree(CountFree(@), h.size)]
                /\ crashed' = FALSE
                /\ Return(t, c, NULL)
           ELSE \/ /\ crashed' = TRUE
                   /\ other' = [other EXCEPT !.stats = CountFree(@)]
                   /\ UNCHANGED heap
                   /\ Jump(t, "aborted", frame[t])
                \/ /\ crashed' = FALSE
                   /\ other' = [other EXCEPT
                               !.stats = StatsLargeFree(CountFree(@), h.size)]
                   /\ UNCHANGED heap
                   /\ Return(t, c, NULL)

\* a thread calls deallocate(ptr) on the second object with an address it
\* holds, or with NULL
OtherDeallocate(t) ==
    /\ CanCall(t) /\ other.built
    /\ \E ptr \in Usable \cup {NULL} :
          other_deallocate(t, ptr, Call("other_deallocate", 0, ptr))
    /\ Tick(TRUE)
    /\ UNCHANGED <<enable_tls, alignment, shutdown, stats, pools, cleaner,
                   dtor>>

\* the steps of a call inside a Fixed_Size_Pool
PoolStep(t) ==
    \/ PoolAllocLock(t)
    \/ PoolAllocBody(t)
    \/ PoolDeallocCheck(t)
    \/ PoolDeallocLock(t)
    \/ PoolDeallocBody(t)

\* the steps inside a call
Step(t) ==
    \/ ReallocFree(t)
    \/ PoolStep(t)

\* Threads sharing one Memory_Pool, each allocating pool-sized blocks and
\* deallocating blocks it or another thread obtained.
Next ==
    \/ \E t \in Threads : Allocate(t, SmallSizes)
    \/ \E t \in Threads : Deallocate(t)
    \/ \E t \in Threads : PoolStep(t)

Spec == Init /\ [][Next]_vars

\* One thread using the whole interface, with the destructor's shutdown flag
\* raised at any moment.
NextApi ==
    \/ Allocate(1, AllocSizes)
    \/ Deallocate(1)
    \/ Reallocate(1)
    \/ Step(1)
    \/ DtorShutdown

SpecApi == Init /\ [][NextApi]_vars

\* The same, by a caller that may also deallocate an address twice.
NextMisuse ==
    \/ NextApi
    \/ DeallocateAgain(1)

SpecMisuse == Init /\ [][NextMisuse]_vars

\* One thread allocating sizes at and around every class boundary.
NextSizes ==
    \/ Allocate(1, ClassSizes)
    \/ Deallocate(1)
    \/ PoolStep(1)

SpecSizes == Init /\ [][NextSizes]_vars

\* One thread creating and destroying Memory_Pool_RAII handles on a pool
\* that may be shut down under them.
NextRaii ==
    \/ RaiiCtor(1)
    \/ RaiiDtor(1)
    \/ PoolStep(1)
    \/ DtorShutdown

SpecRaii == Init /\ [][NextRaii]_vars

\* The life of the Memory_Pool: one thread allocating and deallocating, the
\* maintenance thread, and the destructor, which may start at any moment.
\* The scheduler lets every thread that can run do so, and sleep_for
\* returns; nothing obliges the owner ever to destroy the pool.
NextLife ==
    \/ Allocate(1, SmallSizes)
    \/ Deallocate(1)
    \/ PoolStep(1)
    \/ UseAfterDestroy(1)
    \/ CleanerTest
    \/ CleanerPass
    \/ DtorShutdown
    \/ DtorJoin
    \/ DtorClear

SpecLife ==
    /\ Init /\ [][NextLife]_vars
    /\ WF_vars(CleanerTest) /\ WF_vars(CleanerPass)
    /\ WF_vars(DtorJoin) /\ WF_vars(DtorClear)

\* A pool with a long free list, its maintenance thread, and one thread
\* that allocates, deallocates and asks for maintenance passes.
NextIdle ==
    \/ Allocate(1, SmallSizes)
    \/ Deallocate(1)
    \/ Cleanup(1)
    \/ PoolStep(1)
    \/ CleanerTest
    \/ CleanerPass

SpecIdle == InitIdle /\ [][NextIdle]_vars

\* Threads that may hand the same held address to deallocate at the same
\* time.
NextRace ==
    \/ \E t \in Threads : Allocate(t, SmallSizes)
    \/ \E t \in Threads : DeallocateShared(t)
    \/ \E t \in Threads : PoolStep(t)

SpecRace == InitHeld /\ [][NextRace]_vars

\* The same calls on a pool of any alignment.
SpecAlign == InitAlign /\ [][NextSizes]_vars

\* Threads sharing one Memory_Pool, allocating pool blocks and large blocks
\* and deallocating them, one of them also calling reallocate.
NextShared ==
    \/ \E t \in Threads : Allocate(t, SharedSizes)
    \/ \E t \in Threads : Deallocate(t)
    \/ Reallocate(1)
    \/ \E t \in Threads : Step(t)

SpecShared == Init /\ [][NextShared]_vars

\* One thread using two Memory_Pool objects.
NextTwo ==
    \/ Allocate(1, SharedSizes)
    \/ Deallocate(1)
    \/ PoolStep(1)
    \/ OtherAllocate(1)
    \/ OtherDeallocate(1)

SpecTwo == InitTwo /\ [][NextTwo]_vars

\* Threads allocating from and deallocating to a pool whose free list holds
\* several blocks.
SpecFifo == InitFifo /\ [][Next]_vars


\* =================================================================== claims
\* the most recent finished call of thread t, and the one before it
Last(t) == hist[t][1]
Prev(t) == hist[t][2]

\* thread t is between calls and has finished at least n calls
Finished(t, n) == pc[t] = "idle" /\ Len(hist[t]) >= n

\* thread t's last two calls were p = allocate(size), then op(p, ...)
AllocThen(t, op) ==
    /\ Finished(t, 2)
    /\ Prev(t).op = "allocate" /\ Prev(t).ret # NULL
    /\ Last(t).op = op /\ Last(t).ptr = Prev(t).ret

\* the bytes the statistics account for a pool-sized request
Accounted(size) == small_block_sizes[find_pool_index(size)]

RECURSIVE SumHeld(_)
SumHeld(S) ==
    IF S = {} THEN 0
    ELSE LET a == CHOOSE x \in S : TRUE IN
         held[a] * Accounted(req[a]) + SumHeld(S \ {a})

\* C1: with threads sharing one pool, allocating sizes in 1..1024 and
\* deallocating every returned address at most once, no address is held by
\* two live allocations at the same time.
C1_NoAlias == \A a \in Addr : held[a] <= 1

\* an allocate handed out again a block that had been deallocated, while
\* another allocation is live
C1_Witness ==
    \E t \in Threads :
      /\ Finished(t, 1)
      /\ Last(t).op = "allocate" /\ Last(t).ret # NULL
      /\ Last(t).before.heap[Last(t).ret] = "carved"
      /\ Last(t).before.held[Last(t).ret] = 0
      /\ held[Last(t).ret] = 1
      /\ \E b \in Addr : b # Last(t).ret /\ held[b] = 1

\* C2: deallocate(p) called twice in sequence on an address obtained from
\* allocate(size), 1 <= size <= 1024: the second call leaves the thread
\* caches, every pool and all statistics as the first call left them.
\* (Stated for the default alignment, where a pool block is never handed to
\* the platform deallocator, so the second call reads a header that exists.)
C2_SecondDeallocateIsNoOp ==
    ( /\ alignment = 8
      /\ Finished(1, 2)
      /\ Prev(1).op = "deallocate" /\ Last(1).op = "deallocate"
      /\ Prev(1).ptr # NULL /\ Last(1).ptr = Prev(1).ptr
      /\ Prev(1).before.held[Prev(1).ptr] = 1
      /\ Prev(1).before.req[Prev(1).ptr] \in 1..MaxSmall )
    => /\ tls_cache = Last(1).before.tls_cache
       /\ pools = Last(1).before.pools
       /\ stats = Last(1).before.stats

\* C3: with the default configuration, p = allocate(size) succeeding and
\* then deallocate(p) on the same thread puts current_used back to what it
\* was before the allocate; on a fresh pool, allocate(64) then deallocate
\* leaves alloc_count = 1, free_count = 1, current_used = 0.
C3_AllocFreeRestoresUsed ==
    (enable_tls /\ alignment = 8 /\ AllocThen(1, "deallocate"))
    => /\ stats.current_used = Prev(1).before.stats.current_used
       /\ (Prev(1).before.stats = ZeroStats /\ Prev(1).size = 64)
            => /\ stats.alloc_count = 1
               /\ stats.free_count = 1
               /\ stats.current_used = 0

\* C4: once every thread has run its allocate/deallocate cycles and none is
\* inside a call, current_used is the sum of the sizes accounted for the
\* blocks still held (zero when all were deallocated).
C4_UsedIsSumOfHeld ==
    (\A t \in Threads : Finished(t, 1))
    => stats.current_used = SumHeld(Addr)

\* C5: every address a pool has handed out and the caller still holds has a
\* header with in_use = TRUE, whether freshly carved or re-issued.
C5_HeldIsInUse == \A a \in Addr : held[a] > 0 => hdr[a].in_use

\* C6: every address in a pool's free list has a header with in_use = FALSE
\* and pool_ptr equal to that pool.
C6_FreeListHeaders ==
    \A i \in PoolIdx :
      \A k \in 1..Len(pools[i].free_blocks_) :
        LET h == hdr[pools[i].free_blocks_[k]] IN
        h.in_use = FALSE /\ h.pool_ptr = i

\* a block sits in a free list
C6_Witness == \E i \in PoolIdx : Len(pools[i].free_blocks_) > 0

\* C7: a block from allocate(size), size > 1024, has a header recording
\* size and no owner; deallocate of it hands exactly the malloc region to
\* the platform deallocator and moves current_used and total_freed by size.
C7_LargeBlockHeaderAndFree ==
    /\ \A a \in Addr :
         (held[a] > 0 /\ heap[a] = "raw" /\ req[a] > MaxSmall)
         => hdr[a].size = req[a] /\ hdr[a].pool_ptr = NoPool
    /\ ( /\ AllocThen(1, "deallocate")
         /\ Prev(1).size > MaxSmall )
       => /\ heap[Last(1).ptr] = "unmapped"
          /\ stats.current_used =
                Last(1).before.stats.current_used - Prev(1).size
          /\ stats.total_freed =
                Last(1).before.stats.total_freed + Prev(1).size

\* C8: allocate(size) with size above the largest class leaves every pool
\* and every thread cache as they were; of the statistics only alloc_count,
\* total_allocated and current_used may change.
C8_LargeAllocFrame ==
    ( /\ Finished(1, 1)
      /\ Last(1).op = "allocate" /\ Last(1).size > MaxSmall )
    => /\ pools = Last(1).before.pools
       /\ tls_cache = Last(1).before.tls_cache
       /\ stats.total_freed = Last(1).before.stats.total_freed
       /\ stats.current_free = Last(1).before.stats.current_free
       /\ stats.free_count = Last(1).before.stats.free_count

\* an oversized allocate returned a block
C8_Witness ==
    /\ Finished(1, 1)
    /\ Last(1).op = "allocate" /\ Last(1).size > MaxSmall
    /\ Last(1).ret # NULL
    /\ stats.current_used = Last(1).before.stats.current_used + Last(1).size

\* the two halves of the reallocate claim, for a block of recorded size S
ReallocAddressRule(S) ==
    LET n == Last(1).size
        p == Last(1).ptr
        r == Last(1).ret IN
    /\ (S \div 2 < n /\ n <= S) => r = p
    /\ (~(S \div 2 < n /\ n <= S) /\ r # NULL) => r # p

\* C9 as stated: for p = allocate(old_size), 1 <= old_size <= 1024,
\* reallocate(p, new_size) returns p exactly when
\* old_size/2 < new_size <= old_size, old_size being the size requested.
C9_AsStated ==
    (AllocThen(1, "reallocate") /\ Prev(1).size \in 1..MaxSmall)
    => ReallocAddressRule(Prev(1).size)

\* C9, amended: the same with old_size the size recorded in the block's
\* header, which is the block size of the pool serving the request (its
\* class size rounded up to the alignment).
C9_HeaderSizeRule ==
    (AllocThen(1, "reallocate") /\ Prev(1).size \in 1..MaxSmall)
    => ReallocAddressRule(PoolBlockSize(find_pool_index(Prev(1).size)))

\* reallocate moved a pool block although the new size fits the request
C9_Witness ==
    /\ AllocThen(1, "reallocate") /\ Prev(1).size \in 1..MaxSmall
    /\ Last(1).size <= Prev(1).size
    /\ Last(1).ret # NULL /\ Last(1).ret # Last(1).ptr

\* C10: reallocate(ptr, new_size), ptr non-null, whose fresh allocation
\* fails returns NULL and leaves the old block alone: still held, in no
\* thread cache or free list, header unchanged, and total_freed,
\* current_used and free_count unchanged.
InSomeList(a) ==
    \/ \E t \in Threads : \E i \in PoolIdx :
          \E k \in 1..Len(tls_cache[t].cache[i]) : tls_cache[t].cache[i][k] = a
    \/ \E i \in PoolIdx :
          \E k \in 1..Len(pools[i].free_blocks_) : pools[i].free_blocks_[k] = a

ReallocFailed ==
    /\ Finished(1, 1)
    /\ Last(1).op = "reallocate" /\ Last(1).ptr # NULL
    /\ Last(1).ret = NULL

C10_FailedReallocKeepsOld ==
    ReallocFailed
    => LET p == Last(1).ptr
           b == Last(1).before IN
       /\ held[p] = 1
       /\ ~InSomeList(p)
       /\ hdr[p] = b.hdr[p]
       /\ heap[p] = b.heap[p]
       /\ stats.total_freed = b.stats.total_freed
       /\ stats.current_used = b.stats.current_used
       /\ stats.free_count = b.stats.free_count

\* a reallocate failed because the platform allocator did
C10_Witness ==
    /\ ReallocFailed
    /\ Last(1).size # 0 /\ ~shutdown
    /\ stats.alloc_count = Last(1).before.stats.alloc_count + 1

\* the class the table assigns to a size: the least index whose class size
\* is at least the size, -1 when there is none
SmallestClass(size) ==
    LET S == {i \in PoolIdx : small_block_sizes[i] >= size} IN
    IF S = {} THEN -1 ELSE CHOOSE i \in S : \A j \in S : i <= j

\* thread 1's last call was a successful allocate(size), size >= 1
Allocated(size) ==
    /\ Finished(1, 1)
    /\ Last(1).op = "allocate" /\ Last(1).size = size
    /\ Last(1).ret # NULL

\* C11: find_pool_index(size) is the index of the smallest class >= size for
\* every size in 1..1024 and -1 above (the table never changes, so the
\* whole range is examined once, before the first call); a successful
\* allocate accounts the request to exactly that class, or, above 1024,
\* hands out a region of the platform allocator and touches no pool and no
\* thread cache.
C11_SmallestClass ==
    /\ ncalls = 0 =>
          \A size \in 1..(MaxSmall + 2) :
            find_pool_index(size) = SmallestClass(size)
    /\ \A size \in ClassSizes :
          Allocated(size) =>
            LET r == Last(1).ret
                b == Last(1).before
                i == SmallestClass(size) IN
            IF size <= MaxSmall
            THEN /\ i = find_pool_index(size)
                 /\ stats.total_allocated =
                       b.stats.total_allocated + small_block_sizes[i]
                 /\ stats.current_used =
                       b.stats.current_used + small_block_sizes[i]
            ELSE /\ i = -1
                 /\ heap[r] = "raw" /\ b.heap[r] = "unmapped"
                 /\ pools = b.pools /\ tls_cache = b.tls_cache

\* a request one byte over the largest class went to the platform and the
\* next one, of exactly the largest class, to the last pool
C11_Witness ==
    /\ Finished(1, 2)
    /\ Prev(1).op = "allocate" /\ Prev(1).size = MaxSmall + 1
    /\ Prev(1).ret # NULL /\ heap[Prev(1).ret] = "raw"
    /\ Allocated(MaxSmall)
    /\ hdr[Last(1).ret].pool_ptr = NumClasses - 1

\* C12: allocate(0), and allocate(size) called once the shutdown flag is
\* set, returns NULL and changes nothing: the statistics (alloc_count
\* included), every pool, every thread cache and the platform heap are as
\* they were when the call was made.
C12_RefusedChangesNothing ==
    ( /\ Finished(1, 1)
      /\ Last(1).op = "allocate"
      /\ (Last(1).size = 0 \/ Last(1).before.shutdown) )
    => LET b == Last(1).before IN
       /\ Last(1).ret = NULL
       /\ stats = b.stats
       /\ pools = b.pools
       /\ tls_cache = b.tls_cache
       /\ heap = b.heap /\ hdr = b.hdr

\* an allocate(0) on a running pool was refused, and then an allocate of a
\* pool size after shutdown
C12_Witness ==
    /\ Finished(1, 2)
    /\ Prev(1).op = "allocate" /\ Prev(1).size = 0
    /\ ~Prev(1).before.shutdown /\ Prev(1).ret = NULL
    /\ Last(1).op = "allocate" /\ Last(1).size = 64
    /\ Last(1).before.shutdown /\ Last(1).ret = NULL

\* C13: for every power-of-two alignment A and every class size s, with the
\* platform allocator aligning only to its own fundamental alignment, the
\* address a successful allocate(s) returns is a multiple of A.
C13_AddressAligned ==
    \A i \in PoolIdx :
      Allocated(small_block_sizes[i])
      => UserAddress(Last(1).ret) % alignment = 0

\* thread t's last call was deallocate(ptr) of a pool block of class i made
\* when its stash for that class was full
RejectedByStash(t, i) ==
    /\ Finished(t, 1)
    /\ Last(t).op = "deallocate" /\ Last(t).ptr # NULL
    /\ OwnerIndex(Last(t).before.hdr[Last(t).ptr]) = i
    /\ Len(Last(t).before.tls_cache[t].cache[i]) = TlsCacheSize

\* C14: no thread's stash for any class ever holds more than the capacity
\* (16) addresses; a deallocate that finds the stash full leaves it as it
\* was and carries the block on to the pool (whose release is then
\* accounted in total_freed).
C14_StashWithinCapacity ==
    /\ \A t \in Threads : \A i \in PoolIdx :
          Len(tls_cache[t].cache[i]) <= TlsCacheSize
    /\ \A t \in Threads : \A i \in PoolIdx :
          RejectedByStash(t, i)
          => /\ tls_cache[t] = Last(t).before.tls_cache[t]
             /\ stats.total_freed >=
                   Last(t).before.stats.total_freed + small_block_sizes[i]

\* a full stash turned a block away and the block sits in the pool's free
\* list
C14_Witness ==
    \E t \in Threads : \E i \in PoolIdx :
      /\ RejectedByStash(t, i)
      /\ Len(tls_cache[t].cache[i]) = TlsCacheSize
      /\ \E k \in 1..Len(pools[i].free_blocks_) :
            pools[i].free_blocks_[k] = Last(t).ptr

\* C15: a Memory_Pool_RAII whose allocate succeeded holds that address
\* untouched while it lives, and its destruction calls the pool's deallocate
\* with it exactly once; when allocate returns NULL (size 0 included) the
\* constructor throws, no handle exists and deallocate is never called for
\* it.
C15_HandleReleasesOnce ==
    LET h == raii[1] IN
    /\ h.state = "alive"
         => /\ h.memory_ptr_ # NULL
            /\ h.deallocs = 0
            /\ held[h.memory_ptr_] = 1
    /\ h.state = "destroyed"
         => /\ h.deallocs = 1
            /\ Last(1).op = "raii_dtor" /\ Last(1).ptr = h.memory_ptr_
            /\ stats.free_count = Last(1).before.stats.free_count + 1
    /\ h.state = "threw"
         => /\ h.memory_ptr_ = NULL /\ h.deallocs = 0
            /\ Last(1).op = "raii_ctor" /\ Last(1).ret = NULL
            /\ stats.free_count = Last(1).before.stats.free_count
    /\ (Finished(1, 1) /\ Last(1).op = "raii_ctor")
         => /\ (Last(1).ret = NULL) = (h.state = "threw")
            /\ (Last(1).ret # NULL) = (h.state = "alive")
            /\ Last(1).size = 0 => h.state = "threw"

\* a handle was constructed and destroyed, and its block is back in a
\* thread cache or a free list
C15_Witness ==
    /\ Finished(1, 2)
    /\ Prev(1).op = "raii_ctor" /\ Prev(1).ret # NULL
    /\ Last(1).op = "raii_dtor" /\ Last(1).ptr = Prev(1).ret
    /\ raii[1].state = "destroyed"
    /\ InSomeList(Prev(1).ret)

\* C16: once the destructor has set the shutdown flag, the maintenance
\* thread leaves its loop at its next test of the flag and the destructor's
\* join and teardown complete, whatever calls are in progress.
C16_TeardownCompletes ==
    shutdown ~> (cleaner.pc = "exited" /\ dtor = "done")

\* teardown completed, after at least one maintenance pass, while a call
\* was still inside a pool
C16_Witness ==
    /\ dtor = "done" /\ cleaner.pc = "exited" /\ cleaner.passed
    /\ pc[1] \in {"pool_alloc", "pool_dealloc_lock"}

\* C17: the step of the destructor that destroys the pools releases to the
\* platform every block sitting in a free list at that moment (so that
\* afterwards only blocks held by callers or lying in thread caches are
\* still mapped).
C17_TeardownReleasesFreeLists ==
    [][ (dtor = "clear" /\ dtor' = "done")
        => \A i \in PoolIdx :
             \A k \in 1..Len(pools[i].free_blocks_) :
               heap'[pools[i].free_blocks_[k]] = "unmapped" ]_vars

\* C18: every maintenance pass, the periodic one or an explicit cleanup()
\* call, leaves each pool with at most 100 free blocks.
C18_PassKeepsAtMost100 ==
    [][ ( \/ cleaner.pc = "sleep" /\ cleaner'.pc = "test"
          \/ /\ hist'[1] # hist[1]
             /\ hist'[1][1].op = "cleanup" )
        => \A i \in PoolIdx :
             Len(pools'[i].free_blocks_) <= MaxIdleBlocks ]_vars

\* C19: for every alignment and every class, deallocate of a live address
\* whose header names one of the pools puts the block into the calling
\* thread's stash when that has room, otherwise into that pool's free
\* list, and never hands it to the platform deallocator.
C19_PoolBlockStaysInPool ==
    ( /\ Finished(1, 1)
      /\ Last(1).op = "deallocate" /\ Last(1).ptr # NULL
      /\ Last(1).before.held[Last(1).ptr] = 1
      /\ Last(1).before.heap[Last(1).ptr] = "carved"
      /\ Last(1).before.hdr[Last(1).ptr].pool_ptr \in PoolIdx )
    => LET a == Last(1).ptr
           b == Last(1).before
           i == b.hdr[a].pool_ptr IN
       /\ heap[a] = "carved"
       /\ IF enable_tls /\ Len(b.tls_cache[1].cache[i]) < TlsCacheSize
          THEN tls_cache[1].cache[i] = Append(b.tls_cache[1].cache[i], a)
          ELSE pools[i].free_blocks_ = Append(b.pools[i].free_blocks_, a)

\* C20: whatever the interleaving of two threads calling deallocate on the
\* same in-use address of a pool, the address is pushed onto the free list
\* once and the pool's counters move by one: no free list holds an address
\* twice and no in-use count drops below zero.
C20_PushedOnce ==
    \A i \in PoolIdx :
      LET fl == pools[i].free_blocks_ IN
      /\ \A j, k \in 1..Len(fl) : j # k => fl[j] # fl[k]
      /\ pools[i].current_used_ >= 0

\* the pool-carved blocks of pool i that callers hold
HeldOf(i) ==
    {a \in DOMAIN held :
        held[a] > 0 /\ heap[a] = "carved" /\ hdr[a].pool_ptr = i}

\* address a sits in the free list of pool i
InFreeList(i, a) ==
    \E k \in 1..Len(pools[i].free_blocks_) : pools[i].free_blocks_[k] = a

\* C21: with the thread caches off and no call in progress, after allocate
\* and deallocate calls that release every returned address at most once,
\* each pool's in-use count is the number of its blocks callers hold, and
\* every released pool block lies in its pool's free list; so does a block
\* that was allocated, released, re-issued from the free list and released
\* again.  (Stated for the default alignment, where no pool block is handed
\* to the platform deallocator.)
C21_UsedCountsHeld ==
    ( /\ ~enable_tls /\ alignment = 8
      /\ \A t \in Threads : pc[t] = "idle" )
    => /\ \A i \in PoolIdx :
            pools[i].current_used_ = Cardinality(HeldOf(i))
       /\ \A a \in stale :
            (held[a] = 0 /\ hdr[a].pool_ptr \in PoolIdx)
            => InFreeList(hdr[a].pool_ptr, a)

\* bytes lying in the free lists of pools i..7: length times class size
RECURSIVE FreeListBytes(_)
FreeListBytes(i) ==
    IF i >= NumClasses THEN 0
    ELSE Len(pools[i].free_blocks_) * small_block_sizes[i]
         + FreeListBytes(i + 1)

\* C22: whenever no call is in progress, the current_free statistic has not
\* wrapped below zero and equals the bytes lying in the pools' free lists;
\* in particular right after an allocate that carved a new block because
\* the free list was empty.
C22_FreeIsFreeListBytes ==
    (\A t \in Threads : pc[t] = "idle")
    => /\ stats.current_free >= 0
       /\ stats.current_free = FreeListBytes(0)

\* C23: whenever no allocate, deallocate or reallocate call is in progress,
\* whatever the threads have called, current_used = total_allocated -
\* total_freed (modulo 2^64, on the representatives): every path adds to or
\* takes from the two sides the same amount.
C23_UsedIsAllocatedMinusFreed ==
    (\A t \in Threads : pc[t] = "idle")
    => stats.current_used = stats.total_allocated - stats.total_freed

\* two threads have finished calls, blocks were given back to a pool, others
\* are still held, and nothing is in progress
C23_Witness ==
    /\ \A t \in Threads : pc[t] = "idle"
    /\ Finished(1, 1) /\ Finished(2, 1)
    /\ \E i \in PoolIdx : Len(pools[i].free_blocks_) > 0
    /\ stats.total_freed > 0 /\ stats.current_used > 0
    /\ stats.current_used = stats.total_allocated - stats.total_freed

\* C24: for every pool whose lock is free, current_free_ is the length of
\* the free list and current_used_ + current_free_ is total_allocated_ (the
\* blocks ever carved), whatever the interleaving of allocate and
\* deallocate, deallocations turned away by the header validation included.
C24_PoolCountersAgree ==
    \A i \in PoolIdx :
      pools[i].mutex_ = 0
      => /\ pools[i].current_free_ = Len(pools[i].free_blocks_)
         /\ pools[i].current_used_ + pools[i].current_free_ =
               pools[i].total_allocated_

\* two threads deallocated the same block; the pool took it from one and
\* turned the other away at the header validation
C24_Witness ==
    /\ \A t \in Threads : Finished(t, 1)
    /\ Last(1).op = "deallocate" /\ Last(2).op = "deallocate"
    /\ Last(1).ptr = Last(2).ptr /\ Last(1).ptr # NULL
    /\ LET i == hdr[Last(1).ptr].pool_ptr IN
       /\ i \in PoolIdx
       /\ pools[i].mutex_ = 0
       /\ pools[i].free_blocks_ = <<Last(1).ptr>>
       /\ pools[i].current_free_ = 1

\* the pools of the object a call was made on
PoolsOf(op) ==
    IF op = "other_allocate" THEN {OtherPool(i) : i \in PoolIdx} ELSE PoolIdx

\* C25: with two Memory_Pool objects used by one thread, a pool block that
\* allocate returns was carved by a pool of the object the call was made
\* on, never by a pool of the other object.
C25_BlocksStayWithTheirObject ==
    ( /\ Finished(1, 1)
      /\ Last(1).op \in {"allocate", "other_allocate"}
      /\ Last(1).size <= MaxSmall
      /\ Last(1).ret # NULL )
    => hdr[Last(1).ret].pool_ptr \in PoolsOf(Last(1).op)

\* C26: the step of Fixed_Size_Pool::allocate under the lock, when the free
\* list is non-empty, returns its front address, removes it, leaves
\* total_allocated_ and the platform heap alone; only on an empty list does
\* it ask the platform for a region.  The step of deallocate under the lock
\* appends at the back, so the front is the block that has lain in the list
\* longest: first in, first out.
C26_FrontOfFreeList ==
    [][ \A t \in Threads :
          /\ (pc[t] = "pool_alloc_cs" /\ pc'[t] = "idle")
             => LET i == frame[t].idx
                    fl == pools[i].free_blocks_
                    r == hist'[t][1].ret IN
                IF Len(fl) > 0
                THEN /\ r = fl[1]
                     /\ pools'[i].free_blocks_ = Tail(fl)
                     /\ pools'[i].total_allocated_ = pools[i].total_allocated_
                     /\ heap' = heap
                ELSE \/ r = NULL /\ heap' = heap
                     \/ /\ r # NULL
                        /\ heap[r] = "unmapped" /\ heap'[r] = "carved"
                        /\ pools'[i].total_allocated_ =
                              pools[i].total_allocated_ + 1
          /\ (pc[t] = "pool_dealloc_cs" /\ pc'[t] = "idle")
             => pools'[frame[t].idx].free_blocks_ =
                   Append(pools[frame[t].idx].free_blocks_, frame[t].ptr)
      ]_vars

\* a block was pushed behind two older ones, and the next allocate took the
\* oldest of the three
C26_Witness ==
    /\ Finished(1, 2)
    /\ Prev(1).op = "deallocate" /\ Prev(1).ptr = FifoBlocks
    /\ Last(1).op = "allocate" /\ Last(1).ret = 1
    /\ Last(1).before.pools[WarmClass].free_blocks_ = <<1, 2, FifoBlocks>>
    /\ pools[WarmClass].free_blocks_ = <<2, FifoBlocks>>
    /\ pools[WarmClass].total_allocated_ = FifoBlocks

\* the pools whose lock thread t holds
LocksHeld(t) == {i \in PoolIdx : pools[i].mutex_ = t}

\* thread t is inside pools_[i]->allocate() / pools_[i]->deallocate(),
\* waiting for the lock or holding it
AtPoolAllocate(t) == pc[t] \in {"pool_alloc", "pool_alloc_cs"}
AtPoolDeallocate(t) ==
    pc[t] \in {"pool_dealloc", "pool_dealloc_lock", "pool_dealloc_cs"}

\* C27: a call that the calling thread's cache can serve never goes to a
\* pool, hence neither waits for nor takes a pool lock: a thread found
\* inside a pool's allocate had no block of that class in its cache, one
\* found inside a pool's deallocate had no room for it (the cache of a
\* thread does not change while its call is in the pool).  No thread holds
\* more than one pool lock, and (in a process that was not aborted) it
\* holds one only inside that pool.
C27_CachePathTakesNoLock ==
    \A t \in Threads :
      /\ Cardinality(LocksHeld(t)) <= 1
      /\ (LocksHeld(t) # {} /\ ~crashed)
           => /\ pc[t] \in {"pool_alloc_cs", "pool_dealloc_cs"}
              /\ LocksHeld(t) = {frame[t].idx}
      /\ (enable_tls /\ AtPoolAllocate(t))
           => Len(tls_cache[t].cache[frame[t].idx]) = 0
      /\ (enable_tls /\ AtPoolDeallocate(t))
           => Len(tls_cache[t].cache[frame[t].idx]) >= TlsCacheSize

\* thread 1's allocate was served from its cache, start to finish, while
\* thread 2 held the lock of the pool of the same class, and still holds it
C27_Witness ==
    /\ Finished(1, 1)
    /\ Last(1).op = "allocate" /\ Last(1).ret # NULL
    /\ LET i == find_pool_index(Last(1).size) IN
       /\ Last(1).before.pools[i].mutex_ = 2
       /\ pools[i].mutex_ = 2
       /\ pools = Last(1).before.pools
       /\ Last(1).before.tls_cache[1].cache[i] =
             Append(tls_cache[1].cache[i], Last(1).ret)

====
